---------------------------- MODULE Spec2Model ----------------------------
(***************************************************************************)
(* A model of the GEO analysis service: the keyword extractor, the search  *)
(* question collector, the scoring functions, runAnalysis and the          *)
(* /api/analyze handler with its 24 hour result cache.                     *)
(*                                                                         *)
(* Strings are sequences of characters.  A character is a one-element      *)
(* name: an ASCII character stands for itself, a Hangul syllable is named  *)
(* by its romanisation in capitals between colons (":NEUN:" is U+B294),    *)
(* so that every character is one UTF-16 code unit and Len is .length.     *)
(***************************************************************************)
EXTENDS Integers, Sequences, FiniteSets, TLC

VARIABLES
    args,     \* the operation under way and its arguments
    ret,      \* what the operation returned (or threw)
    now,      \* the clock, in hours
    cache,    \* the analysis_history table: normalized_url -> row or NoRow
    effects   \* what the last handler run did: fetches, provider calls, writes

vars == <<args, ret, now, cache, effects>>

Null == <<"\\null">>

(***************************************************************************)
(* Characters and the String methods the code uses.                        *)
(***************************************************************************)
WhiteSpace == {" ", "\t"}

Digits == {"0", "1", "2", "3", "4", "5", "6", "7", "8", "9"}

UpperCase ==
    {"A", "B", "C", "D", "E", "F", "G", "H", "I", "J", "K", "L",
             "M", "N", "O", "P", "Q", "R", "S", "T", "U", "V", "W", "X",
             "Y", "Z"}

LowerCase ==
    {"a", "b", "c", "d", "e", "f", "g", "h", "i", "j", "k", "l",
             "m", "n", "o", "p", "q", "r", "s", "t", "u", "v", "w", "x",
             "y", "z"}

\* The Hangul syllables (U+AC00..U+D7A3) that the texts of the model use.
Hangul ==
    {":NEUN:", ":EOL:", ":MA:", ":NA:", ":JA:", ":JU:", ":GYO:",
          ":CHE:", ":HAE:", ":YA:", ":HA:", ":YO:", ":BI:", ":YONG:",
          ":EUN:", ":EO:", ":NEU:", ":JEONG:", ":DO:", ":IN:", ":GA:",
          ":REUL:", ":SEON:", ":TAEK:", ":HAL:", ":TTAE:", ":GO:",
          ":RYEO:", ":JEOM:", ":MU:", ":EOT:", ":GEU:", ":RI:", ":JI:",
          ":MAN:", ":REO:", ":MYEON:", ":SEO:", ":TTO:", ":HAN:", ":I:",
          ":GEOT:", ":JEO:", ":ISS:", ":DOE:", ":TONG:", ":DAE:", ":WI:",
          ":GAT:", ":MANH:", ":TTEOH:", ":GE:", ":EON:", ":JE:", ":WAE:",
          ":NEUNG:", ":BANG:", ":BEOP:", ":GI:", ":GAN:", ":CHA:", ":CHU:",
          ":CHEON:", ":DI:", ":NU:"}

\* String.prototype.toLowerCase, one character
LowerChar(c) ==
    IF c \notin UpperCase THEN c
    ELSE CASE c = "A" -> "a" [] c = "B" -> "b" [] c = "C" -> "c"
           [] c = "D" -> "d" [] c = "E" -> "e" [] c = "F" -> "f"
           [] c = "G" -> "g" [] c = "H" -> "h" [] c = "I" -> "i"
           [] c = "J" -> "j" [] c = "K" -> "k" [] c = "L" -> "l"
           [] c = "M" -> "m" [] c = "N" -> "n" [] c = "O" -> "o"
           [] c = "P" -> "p" [] c = "Q" -> "q" [] c = "R" -> "r"
           [] c = "S" -> "s" [] c = "T" -> "t" [] c = "U" -> "u"
           [] c = "V" -> "v" [] c = "W" -> "w" [] c = "X" -> "x"
           [] c = "Y" -> "y" [] c = "Z" -> "z"

\* The sequence f as a tuple of its values (TLC keeps a function
\* [i \in 1..n |-> e] as the expression e and evaluates it at every use)
Tuple(f) == SubSeq(f, 1, Len(f))

toLowerCase(s) == Tuple([i \in 1..Len(s) |-> LowerChar(s[i])])

\* The least element of a non-empty set of numbers
Least(S) == CHOOSE i \in S : \A j \in S : i <= j

\* The index of the first character of s from index i on that is (is not)
\* white space, Len(s) + 1 when there is none
nextWhiteSpace(s, i) ==
    Least({k \in i..Len(s) : s[k] \in WhiteSpace} \cup {Len(s) + 1})

nextOther(s, i) ==
    Least({k \in i..Len(s) : s[k] \notin WhiteSpace} \cup {Len(s) + 1})

trimStart(s) == SubSeq(s, nextOther(s, 1), Len(s))

trimEnd(s) ==
    LET others == {k \in 1..Len(s) : s[k] \notin WhiteSpace}
    IN  IF others = {} THEN <<>>
        ELSE SubSeq(s, 1, CHOOSE i \in others : \A j \in others : j <= i)

\* String.prototype.trim
trim(s) == trimEnd(trimStart(s))

\* s.split(/\s+/): the pieces between the maximal runs of white space; a
\* string that starts (ends) with white space has an empty first (last)
\* piece, and "" splits into [""].
RECURSIVE splitWhiteSpace(_)
splitWhiteSpace(s) ==
    LET i == nextWhiteSpace(s, 1)
    IN  IF i > Len(s) THEN <<s>>
        ELSE <<SubSeq(s, 1, i - 1)>>
             \o splitWhiteSpace(SubSeq(s, nextOther(s, i), Len(s)))

\* A place that a replace() leaves out of its result
Dropped == "\\dropped"

\* s.replace(/\s+/g, ' '): the first character of a run becomes a space,
\* the others go.
collapseWhiteSpace(s) ==
    SelectSeq([i \in 1..Len(s) |->
                 IF s[i] \notin WhiteSpace THEN s[i]
                 ELSE IF i > 1 /\ s[i - 1] \in WhiteSpace THEN Dropped
                 ELSE " "],
              LAMBDA c : c # Dropped)

\* Array.prototype.filter with the predicate "length >= n"
filterMinLength(xs, n) == SelectSeq(xs, LAMBDA x : Len(x) >= n)

\* Array.prototype.includes
includes(xs, x) == \E i \in 1..Len(xs) : xs[i] = x

\* Array.prototype.join
RECURSIVE join(_, _)
join(parts, sep) ==
    IF parts = <<>> THEN <<>>
    ELSE IF Len(parts) = 1 THEN Head(parts)
    ELSE Head(parts) \o sep \o join(Tail(parts), sep)

Max(a, b) == IF a >= b THEN a ELSE b

Min(a, b) == IF a <= b THEN a ELSE b

\* s.substring(0, n)
substring0(s, n) == SubSeq(s, 1, Min(n, Len(s)))

\* Array.prototype.slice(0, n)
slice0(xs, n) == SubSeq(xs, 1, Min(n, Len(xs)))

\* All sequences over S of length at most n
SeqUpTo(S, n) == UNION {[1..k -> S] : k \in 0..n}

(***************************************************************************)
(* Rational numbers n/d (d > 0), for the ratios the code holds in doubles. *)
(***************************************************************************)
Rat(n, d) == [n |-> n, d |-> d]

RatLeq(a, b) == a.n * b.d <= b.n * a.d

RatEq(a, b) == a.n * b.d = b.n * a.d

\* JavaScript truthiness of a string | null: neither null nor "".
Truthy(s) == s # Null /\ Len(s) > 0

\* What the variables hold before an operation has run
NoRet == [op |-> "none"]

NoEffects == [fetched |-> FALSE, providerCalls |-> <<>>, stored |-> FALSE]

NoRow == [present |-> FALSE]

(***************************************************************************)
(* keywordExtractor.ts                                                     *)
(***************************************************************************)
STOP_WORDS ==
    { <<":GEU:", ":RI:", ":GO:">>,
      <<":HA:", ":JI:", ":MAN:">>,
      <<":GEU:", ":REO:", ":NA:">>,
      <<":GEU:", ":REO:", ":MYEON:", ":SEO:">>,
      <<":TTO:", ":NEUN:">>,
      <<":TTO:", ":HAN:">>,
      <<":I:", ":GEOT:">>,
      <<":JEO:", ":GEOT:">>,
      <<":GEU:", ":GEOT:">>,
      <<":ISS:", ":NEUN:">>,
      <<":HA:", ":NEUN:">>,
      <<":DOE:", ":NEUN:">>,
      <<":TONG:", ":HAE:">>,
      <<":DAE:", ":HAN:">>,
      <<":WI:", ":HAN:">>,
      <<":GAT:", ":EUN:">>,
      <<":MANH:", ":EUN:">>,
      <<"t", "h", "e">>,
      <<"i", "s">>,
      <<"a", "r", "e">>,
      <<"a", "n", "d">>,
      <<"o", "r">>,
      <<"f", "o", "r">>,
      <<"w", "i", "t", "h">>,
      <<"t", "h", "i", "s">>,
      <<"t", "h", "a", "t">>,
      <<"f", "r", "o", "m">>,
      <<"i", "n", "t", "o">>,
      <<"a", "b", "o", "u", "t">>,
      <<"y", "o", "u", "r">>,
      <<"o", "u", "r">>,
      <<"h", "a", "s">>,
      <<"h", "a", "v", "e">>,
      <<"c", "a", "n">>,
      <<"w", "i", "l", "l">>,
      <<"b", "e", "e", "n">>,
      <<"m", "o", "r", "e">>,
      <<"w", "h", "e", "n">>,
      <<"t", "h", "e", "y">>,
      <<"t", "h", "e", "m">>,
      <<"t", "h", "e", "i", "r">>,
      <<"w", "h", "a", "t">>,
      <<"w", "h", "i", "c", "h">> }

\* The characters that /[^0-9a-zA-Z\uAC00-\uD7A3]+/ does not match
KeptChars == Digits \cup LowerCase \cup UpperCase \cup Hangul

\* normalized.replace(/[^0-9a-zA-Z\uAC00-\uD7A3]+/g, ' '): the first
\* character of a run becomes a space, the others go.
replaceOthers(s) ==
    SelectSeq([i \in 1..Len(s) |->
                 IF s[i] \in KeptChars THEN s[i]
                 ELSE IF i > 1 /\ s[i - 1] \notin KeptChars THEN Dropped
                 ELSE " "],
              LAMBDA c : c # Dropped)

ContentPrefix == 800

TopKeywords == 10

MaxTokenLength == 30

\* /^\d+$/.test(token)
allDigits(token) ==
    Len(token) > 0 /\ \A i \in 1..Len(token) : token[i] \in Digits

\* The two filters of the token list: length, digits and length again,
\* then the stop words.
keepToken(token) ==
    /\ Len(token) # 1
    /\ ~allDigits(token)
    /\ ~(Len(token) >= MaxTokenLength)
    /\ token \notin STOP_WORDS

filterTokens(tokens) == SelectSeq(tokens, keepToken)

\* frequencyMap.set(token, (frequencyMap.get(token) || 0) + 1): a Map keeps
\* its keys in the order of their first insertion.
mapIncrement(entries, token) ==
    IF \E i \in 1..Len(entries) : entries[i][1] = token
    THEN [i \in 1..Len(entries) |->
            IF entries[i][1] = token
            THEN <<token, entries[i][2] + 1>> ELSE entries[i]]
    ELSE Append(entries, <<token, 1>>)

RECURSIVE frequencyMap(_, _)
frequencyMap(tokens, entries) ==
    IF tokens = <<>> THEN entries
    ELSE frequencyMap(Tail(tokens), mapIncrement(entries, Head(tokens)))

\* One step of a stable sort by b[1] - a[1]: e goes behind every entry whose
\* count is at least its own.
RECURSIVE insertByCount(_, _)
insertByCount(sorted, e) ==
    IF sorted = <<>> THEN <<e>>
    ELSE IF Head(sorted)[2] >= e[2]
         THEN <<Head(sorted)>> \o insertByCount(Tail(sorted), e)
         ELSE <<e>> \o sorted

sortByCountDesc_Unsorted(entries) == entries

\* entries.sort((a, b) => b[1] - a[1]); Array.prototype.sort is stable
RECURSIVE sortByCountDesc(_)
sortByCountDesc(entries) ==
    IF entries = <<>> THEN <<>>
    ELSE insertByCount(sortByCountDesc(SubSeq(entries, 1, Len(entries) - 1)),
                       entries[Len(entries)])

\* The token list of steps (1) to (3)
keywordTokens(meta, headings, contentText) ==
    LET parts ==
            (IF Truthy(meta.title) THEN <<meta.title>> ELSE <<>>)
            \o (IF Truthy(meta.ogTitle) THEN <<meta.ogTitle>> ELSE <<>>)
            \o (IF Truthy(meta.description)
                THEN <<meta.description>> ELSE <<>>)
            \o (IF Truthy(meta.ogDescription)
                THEN <<meta.ogDescription>> ELSE <<>>)
            \o headings
            \o (IF Truthy(contentText)
                THEN <<substring0(contentText, ContentPrefix)>> ELSE <<>>)
        rawText == join(parts, <<" ">>)
        cleaned == replaceOthers(toLowerCase(rawText))
    IN  IF Len(trim(rawText)) = 0 THEN <<>>
        ELSE filterTokens(filterMinLength(splitWhiteSpace(cleaned), 1))

\* extractSeedKeywords
extractSeedKeywords(meta, headings, contentText) ==
    LET tokens == keywordTokens(meta, headings, contentText)
        entries == sortByCountDesc(frequencyMap(tokens, <<>>))
        topEntries == slice0(entries, TopKeywords)
        maxCount == IF Len(topEntries) > 0 THEN topEntries[1][2] ELSE 1
    IN  IF Len(tokens) = 0 THEN <<>>
        ELSE [i \in 1..Len(topEntries) |->
                [value |-> topEntries[i][1],
                 score |-> Rat(topEntries[i][2], maxCount)]]

(***************************************************************************)
(* SpecKeywords: extractSeedKeywords applied to bounded inputs.            *)
(***************************************************************************)
MaxHeadings == 2

\* "aa bb cc dd ee ff gg hh ii jj kk ll bb": twelve distinct tokens
TwelveTokens ==
    <<"a", "a", " ", "b", "b", " ", "c", "c", " ", "d", "d", " ", "e", "e",
      " ", "f", "f", " ", "g", "g", " ", "h", "h", " ", "i", "i", " ", "j",
      "j", " ", "k", "k", " ", "l", "l", " ", "b", "b">>

\* "What is GEO? geo-score 2024 is the x zzz...z" (thirty times z)
MixedText ==
    <<"W", "h", "a", "t", " ", "i", "s", " ", "G", "E", "O", "?", " ", "g",
      "e", "o", "-", "s", "c", "o", "r", "e", " ", "2", "0", "2", "4", " ",
      "i", "s", " ", "t", "h", "e", " ", "x", " ">>
    \o [i \in 1..MaxTokenLength |-> "z"]

\* A Hangul text with a stop word and a repeated token
HangulText ==
    <<":BI:", ":YONG:", ":EUN:", " ", ":EO:", ":NEU:", " ", ":JEONG:",
      ":DO:", ":IN:", ":GA:", ":YO:", "?", " ", ":GEU:", ":RI:", ":GO:",
      " ", ":BI:", ":YONG:", ":EUN:">>

KeywordArgs ==
    {[op |-> "extractSeedKeywords",
      meta |-> [title |-> t, ogTitle |-> o, description |-> d,
                ogDescription |-> g],
      headings |-> h, contentText |-> c] :
        t \in {Null, <<" ", " ">>, <<"G", "E", "O", " ", "S", "c", "o", "r", "e">>},
        o \in {Null, <<"s", "c", "o", "r", "e">>},
        d \in {Null, <<"t", "h", "e", " ", "a", "n", "d", " ", "o", "r">>,
               <<"S", "c", "o", "r", "e", ",", " ", "s", "c", "o", "r", "e", ":", " ", "k", "k">>},
        g \in {Null, <<"g", "e", "o">>},
        h \in SeqUpTo({<<"H", "1", " ", "a", "a">>, <<"L", "l", " ", "l", "l">>},
                      MaxHeadings),
        c \in {<<>>, TwelveTokens, MixedText, HangulText}}

InitKeywords ==
    /\ args \in KeywordArgs
    /\ ret = NoRet
    /\ now = 0
    /\ cache = <<>>
    /\ effects = NoEffects

CallExtractSeedKeywords ==
    /\ args.op = "extractSeedKeywords"
    /\ ret = NoRet
    /\ ret' = [op |-> args.op,
               value |-> extractSeedKeywords(args.meta, args.headings,
                                             args.contentText)]
    /\ UNCHANGED <<args, now, cache, effects>>

NextKeywords == CallExtractSeedKeywords

SpecKeywords == InitKeywords /\ [][NextKeywords]_vars

\* C4: extractSeedKeywords returns at most 10 entries, every score is in
\* [0,1], the scores do not increase along the sequence, and the first (the
\* largest) score is 1 whenever there is an entry.
C4_SeedKeywordsBounded ==
    ret.op = "extractSeedKeywords" =>
        LET k == ret.value
        IN  /\ Len(k) <= 10
            /\ \A i \in 1..Len(k) :
                  /\ k[i].score.d > 0
                  /\ RatLeq(Rat(0, 1), k[i].score)
                  /\ RatLeq(k[i].score, Rat(1, 1))
            /\ \A i \in 1..Len(k) : \A j \in i..Len(k) :
                  RatLeq(k[j].score, k[i].score)
            /\ Len(k) > 0 => RatEq(k[1].score, Rat(1, 1))

\* Ten keywords kept of more than ten distinct tokens, where the most
\* frequent token ("score") was not the first one seen.
C4_Witness ==
    /\ ret.op = "extractSeedKeywords"
    /\ Len(ret.value) = 10
    /\ args.contentText = TwelveTokens
    /\ ret.value[1].value = <<"s", "c", "o", "r", "e">>
    /\ ret.value[1].score = Rat(3, 3)
    /\ ret.value[2].score = Rat(2, 3)
    /\ ret.value[10].score = Rat(1, 3)

(***************************************************************************)
(* searchQuestions.ts                                                      *)
(***************************************************************************)
\* The characters encodeURIComponent leaves as they are
Unreserved ==
    Digits \cup LowerCase \cup UpperCase
    \cup {"-", "_", ".", "!", "~", "*", "'", "(", ")"}

\* encodeURIComponent, one character: the UTF-8 bytes as %XX
encodeChar(c) ==
    CASE c \in Unreserved -> <<c>>
      [] c = " " -> <<"%", "2", "0">>
      [] c = "\t" -> <<"%", "0", "9">>
      [] c = "?" -> <<"%", "3", "F">>
      [] c = "," -> <<"%", "2", "C">>
      [] c = ":" -> <<"%", "3", "A">>
      [] c = "/" -> <<"%", "2", "F">>
      [] c = "=" -> <<"%", "3", "D">>
      [] c = "&" -> <<"%", "2", "6">>
      [] c = "#" -> <<"%", "2", "3">>
      [] c = "%" -> <<"%", "2", "5">>
      [] c = "+" -> <<"%", "2", "B">>
      [] c = ";" -> <<"%", "3", "B">>
      [] c = "@" -> <<"%", "4", "0">>
      [] c = "$" -> <<"%", "2", "4">>
      [] c = ":NEUN:" -> <<"%", "E", "B", "%", "8", "A", "%", "9", "4">>
      [] c = ":EOL:" -> <<"%", "E", "C", "%", "9", "6", "%", "B", "C">>
      [] c = ":MA:" -> <<"%", "E", "B", "%", "A", "7", "%", "8", "8">>
      [] c = ":NA:" -> <<"%", "E", "B", "%", "8", "2", "%", "9", "8">>
      [] c = ":JA:" -> <<"%", "E", "C", "%", "9", "E", "%", "9", "0">>
      [] c = ":JU:" -> <<"%", "E", "C", "%", "A", "3", "%", "B", "C">>
      [] c = ":GYO:" -> <<"%", "E", "A", "%", "B", "5", "%", "9", "0">>
      [] c = ":CHE:" -> <<"%", "E", "C", "%", "B", "2", "%", "B", "4">>
      [] c = ":HAE:" -> <<"%", "E", "D", "%", "9", "5", "%", "B", "4">>
      [] c = ":YA:" -> <<"%", "E", "C", "%", "9", "5", "%", "B", "C">>
      [] c = ":HA:" -> <<"%", "E", "D", "%", "9", "5", "%", "9", "8">>
      [] c = ":YO:" -> <<"%", "E", "C", "%", "9", "A", "%", "9", "4">>
      [] c = ":BI:" -> <<"%", "E", "B", "%", "B", "9", "%", "8", "4">>
      [] c = ":YONG:" -> <<"%", "E", "C", "%", "9", "A", "%", "A", "9">>
      [] c = ":EUN:" -> <<"%", "E", "C", "%", "9", "D", "%", "8", "0">>
      [] c = ":EO:" -> <<"%", "E", "C", "%", "9", "6", "%", "B", "4">>
      [] c = ":NEU:" -> <<"%", "E", "B", "%", "8", "A", "%", "9", "0">>
      [] c = ":JEONG:" -> <<"%", "E", "C", "%", "A", "0", "%", "9", "5">>
      [] c = ":DO:" -> <<"%", "E", "B", "%", "8", "F", "%", "8", "4">>
      [] c = ":IN:" -> <<"%", "E", "C", "%", "9", "D", "%", "B", "8">>
      [] c = ":GA:" -> <<"%", "E", "A", "%", "B", "0", "%", "8", "0">>
      [] c = ":REUL:" -> <<"%", "E", "B", "%", "A", "5", "%", "B", "C">>
      [] c = ":SEON:" -> <<"%", "E", "C", "%", "8", "4", "%", "A", "0">>
      [] c = ":TAEK:" -> <<"%", "E", "D", "%", "8", "3", "%", "9", "D">>
      [] c = ":HAL:" -> <<"%", "E", "D", "%", "9", "5", "%", "A", "0">>
      [] c = ":TTAE:" -> <<"%", "E", "B", "%", "9", "5", "%", "8", "C">>
      [] c = ":GO:" -> <<"%", "E", "A", "%", "B", "3", "%", "A", "0">>
      [] c = ":RYEO:" -> <<"%", "E", "B", "%", "A", "0", "%", "A", "4">>
      [] c = ":JEOM:" -> <<"%", "E", "C", "%", "A", "0", "%", "9", "0">>
      [] c = ":MU:" -> <<"%", "E", "B", "%", "A", "C", "%", "B", "4">>
      [] c = ":EOT:" -> <<"%", "E", "C", "%", "9", "7", "%", "8", "7">>
      [] c = ":GEU:" -> <<"%", "E", "A", "%", "B", "7", "%", "B", "8">>
      [] c = ":RI:" -> <<"%", "E", "B", "%", "A", "6", "%", "A", "C">>
      [] c = ":JI:" -> <<"%", "E", "C", "%", "A", "7", "%", "8", "0">>
      [] c = ":MAN:" -> <<"%", "E", "B", "%", "A", "7", "%", "8", "C">>
      [] c = ":REO:" -> <<"%", "E", "B", "%", "9", "F", "%", "A", "C">>
      [] c = ":MYEON:" -> <<"%", "E", "B", "%", "A", "9", "%", "B", "4">>
      [] c = ":SEO:" -> <<"%", "E", "C", "%", "8", "4", "%", "9", "C">>
      [] c = ":TTO:" -> <<"%", "E", "B", "%", "9", "8", "%", "9", "0">>
      [] c = ":HAN:" -> <<"%", "E", "D", "%", "9", "5", "%", "9", "C">>
      [] c = ":I:" -> <<"%", "E", "C", "%", "9", "D", "%", "B", "4">>
      [] c = ":GEOT:" -> <<"%", "E", "A", "%", "B", "2", "%", "8", "3">>
      [] c = ":JEO:" -> <<"%", "E", "C", "%", "A", "0", "%", "8", "0">>
      [] c = ":ISS:" -> <<"%", "E", "C", "%", "9", "E", "%", "8", "8">>
      [] c = ":DOE:" -> <<"%", "E", "B", "%", "9", "0", "%", "9", "8">>
      [] c = ":TONG:" -> <<"%", "E", "D", "%", "8", "6", "%", "B", "5">>
      [] c = ":DAE:" -> <<"%", "E", "B", "%", "8", "C", "%", "8", "0">>
      [] c = ":WI:" -> <<"%", "E", "C", "%", "9", "C", "%", "8", "4">>
      [] c = ":GAT:" -> <<"%", "E", "A", "%", "B", "0", "%", "9", "9">>
      [] c = ":MANH:" -> <<"%", "E", "B", "%", "A", "7", "%", "8", "E">>
      [] c = ":TTEOH:" -> <<"%", "E", "B", "%", "9", "6", "%", "B", "B">>
      [] c = ":GE:" -> <<"%", "E", "A", "%", "B", "2", "%", "8", "C">>
      [] c = ":EON:" -> <<"%", "E", "C", "%", "9", "6", "%", "B", "8">>
      [] c = ":JE:" -> <<"%", "E", "C", "%", "A", "0", "%", "9", "C">>
      [] c = ":WAE:" -> <<"%", "E", "C", "%", "9", "9", "%", "9", "C">>
      [] c = ":NEUNG:" -> <<"%", "E", "B", "%", "8", "A", "%", "A", "5">>
      [] c = ":BANG:" -> <<"%", "E", "B", "%", "B", "0", "%", "A", "9">>
      [] c = ":BEOP:" -> <<"%", "E", "B", "%", "B", "2", "%", "9", "5">>
      [] c = ":GI:" -> <<"%", "E", "A", "%", "B", "8", "%", "B", "0">>
      [] c = ":GAN:" -> <<"%", "E", "A", "%", "B", "0", "%", "8", "4">>
      [] c = ":CHA:" -> <<"%", "E", "C", "%", "B", "0", "%", "A", "8">>
      [] c = ":CHU:" -> <<"%", "E", "C", "%", "B", "6", "%", "9", "4">>
      [] c = ":CHEON:" -> <<"%", "E", "C", "%", "B", "2", "%", "9", "C">>
      [] c = ":DI:" -> <<"%", "E", "B", "%", "9", "4", "%", "9", "4">>
      [] c = ":NU:" -> <<"%", "E", "B", "%", "8", "8", "%", "8", "4">>

RECURSIVE encodeURIComponent(_)
encodeURIComponent(s) ==
    IF s = <<>> THEN <<>>
    ELSE encodeChar(Head(s)) \o encodeURIComponent(Tail(s))

searchUrl(keyword) ==
    <<"h", "t", "t", "p", "s", ":", "/", "/", "e", "x", "a", "m", "p", "l",
      "e", ".", "c", "o", "m", "/", "s", "e", "a", "r", "c", "h", "?", "q",
      "=">>
    \o encodeURIComponent(keyword)

\* The three templated questions of the placeholder provider
mockQuestions(keyword, source) ==
    << [source |-> source,
        text |-> keyword \o
            <<":NEUN:", " ", ":EOL:", ":MA:", ":NA:", " ", ":JA:", ":JU:",
              " ", ":GYO:", ":CHE:", ":HAE:", ":YA:", " ", ":HA:", ":NA:",
              ":YO:", "?">>,
        url |-> searchUrl(keyword)],
       [source |-> source,
        text |-> keyword \o
            <<" ", ":BI:", ":YONG:", ":EUN:", " ", ":EO:", ":NEU:", " ",
              ":JEONG:", ":DO:", ":IN:", ":GA:", ":YO:", "?">>,
        url |-> searchUrl(keyword)],
       [source |-> source,
        text |-> keyword \o
            <<":REUL:", " ", ":SEON:", ":TAEK:", ":HAL:", " ", ":TTAE:",
              " ", ":GO:", ":RYEO:", ":HAE:", ":YA:", " ", ":HAL:", " ",
              ":JEOM:", ":EUN:", " ", ":MU:", ":EOT:", ":IN:", ":GA:",
              ":YO:", "?">>,
        url |-> searchUrl(keyword)] >>

\* How one call of the provider ends: with its questions, or rejected
ProviderOutcomes == {"ok", "rejected"}

\* fetchFromTavily: the questions of a call that ends as outcome says.  A
\* call that fails, caught inside (lines 75-78) or by the caller (lines
\* 132-136), adds no question.
fetchFromTavily(keyword, source, outcome) ==
    IF outcome = "ok" THEN mockQuestions(keyword, source) ELSE <<>>

normalizedText_CaseSensitive(text) == trim(collapseWhiteSpace(text))

\* question.text.toLowerCase().replace(/\s+/g, ' ').trim()
normalizedText(text) == trim(collapseWhiteSpace(toLowerCase(text)))

RECURSIVE dedupeFrom(_, _)
dedupeFrom(questions, seen) ==
    IF questions = <<>> THEN <<>>
    ELSE LET key == normalizedText(Head(questions).text)
         IN  IF key \notin seen
             THEN <<Head(questions)>>
                  \o dedupeFrom(Tail(questions), seen \cup {key})
             ELSE dedupeFrom(Tail(questions), seen)

\* dedupeQuestions
dedupeQuestions(questions) == dedupeFrom(questions, {})

\* One step of a stable sort by b.score - a.score
RECURSIVE insertByScore(_, _)
insertByScore(sorted, k) ==
    IF sorted = <<>> THEN <<k>>
    ELSE IF RatLeq(k.score, Head(sorted).score)
         THEN <<Head(sorted)>> \o insertByScore(Tail(sorted), k)
         ELSE <<k>> \o sorted

\* [...seedKeywords].sort((a, b) => b.score - a.score)
RECURSIVE sortByScoreDesc(_)
sortByScoreDesc(keywords) ==
    IF keywords = <<>> THEN <<>>
    ELSE insertByScore(
             sortByScoreDesc(SubSeq(keywords, 1, Len(keywords) - 1)),
             keywords[Len(keywords)])

TopSearchKeywords == 5

MinQuestionLength == 5

RECURSIVE collectQuestions_StopAtFailure(_, _, _)
collectQuestions_StopAtFailure(topKeywords, outcomes, i) ==
    IF i > Len(topKeywords) THEN [questions |-> <<>>, calls |-> <<>>]
    ELSE LET rest == IF outcomes[i] = "ok"
                     THEN collectQuestions_StopAtFailure(topKeywords,
                                                         outcomes, i + 1)
                     ELSE [questions |-> <<>>, calls |-> <<>>]
         IN  [questions |->
                  fetchFromTavily(topKeywords[i].value, "google",
                                  outcomes[i]) \o rest.questions,
              calls |-> <<topKeywords[i].value>> \o rest.calls]

\* The loop over topKeywords from the i-th on: every keyword is asked for
\* once; a rejected call is logged and adds nothing.  The result holds
\* allQuestions and the keywords the provider was called with, in order.
RECURSIVE collectQuestions(_, _, _)
collectQuestions(topKeywords, outcomes, i) ==
    IF i > Len(topKeywords) THEN [questions |-> <<>>, calls |-> <<>>]
    ELSE LET rest == collectQuestions(topKeywords, outcomes, i + 1)
         IN  [questions |->
                  fetchFromTavily(topKeywords[i].value, "google",
                                  outcomes[i]) \o rest.questions,
              calls |-> <<topKeywords[i].value>> \o rest.calls]

\* fetchSearchQuestions: [value |-> what it returns, calls |-> the provider
\* calls it made]
fetchSearchQuestions(seedKeywords, outcomes) ==
    IF Len(seedKeywords) = 0 THEN [value |-> <<>>, calls |-> <<>>]
    ELSE LET topKeywords ==
                 slice0(sortByScoreDesc(seedKeywords), TopSearchKeywords)
             all == collectQuestions(topKeywords, outcomes, 1)
             dedupedQuestions == dedupeQuestions(all.questions)
         IN  [value |-> SelectSeq(dedupedQuestions,
                                  LAMBDA q : Len(q.text) > MinQuestionLength),
              calls |-> all.calls]

(***************************************************************************)
(* SpecQuestions: dedupeQuestions and fetchSearchQuestions applied to      *)
(* bounded inputs.  The questions' provider ends each of its calls as the  *)
(* environment says.                                                       *)
(***************************************************************************)
MaxQuestions == 3

MaxSeedKeywords == 4

\* "What is X?", "what   is x ?", " WHAT<TAB>is x? ", "what is x?", "Hi?"
DedupeTexts ==
    { <<"W", "h", "a", "t", " ", "i", "s", " ", "X", "?">>,
      <<"w", "h", "a", "t", " ", " ", " ", "i", "s", " ", "x", " ", "?">>,
      <<" ", "W", "H", "A", "T", "\t", "i", "s", " ", "x", "?", " ">>,
      <<"w", "h", "a", "t", " ", "i", "s", " ", "x", "?">>,
      <<"H", "i", "?">> }

\* Seed keywords "aa" (score 1/2), " Aa" (score 1) and "bb" (score 1/2)
SeedKeywordPool ==
    { [value |-> <<"a", "a">>, score |-> Rat(1, 2)],
      [value |-> <<" ", "A", "a">>, score |-> Rat(2, 2)],
      [value |-> <<"b", "b">>, score |-> Rat(1, 2)] }

\* Every short list of seed keywords, and the lists of six that end with
\* "bb", "aa", " Aa", "bb": more keywords than the provider is asked for.
SeedKeywordLists ==
    SeqUpTo(SeedKeywordPool, MaxSeedKeywords)
    \cup {p \o << [value |-> <<"b", "b">>, score |-> Rat(1, 2)],
                  [value |-> <<"a", "a">>, score |-> Rat(1, 2)],
                  [value |-> <<" ", "A", "a">>, score |-> Rat(2, 2)],
                  [value |-> <<"b", "b">>, score |-> Rat(1, 2)] >> :
            p \in [1..2 -> SeedKeywordPool]}

QuestionArgs ==
    {[op |-> "dedupeQuestions", questions |-> qs] :
        qs \in SeqUpTo({[source |-> "google", text |-> t] :
                           t \in DedupeTexts}, MaxQuestions)}
    \cup
    {[op |-> "fetchSearchQuestions", seedKeywords |-> ks,
      outcomes |-> os] :
        ks \in SeedKeywordLists,
        os \in [1..TopSearchKeywords -> ProviderOutcomes]}

InitQuestions ==
    /\ args \in QuestionArgs
    /\ ret = NoRet
    /\ now = 0
    /\ cache = <<>>
    /\ effects = NoEffects

CallDedupeQuestions ==
    /\ args.op = "dedupeQuestions"
    /\ ret = NoRet
    /\ ret' = [op |-> args.op, value |-> dedupeQuestions(args.questions)]
    /\ UNCHANGED <<args, now, cache, effects>>

CallFetchSearchQuestions ==
    /\ args.op = "fetchSearchQuestions"
    /\ ret = NoRet
    /\ LET r == fetchSearchQuestions(args.seedKeywords, args.outcomes)
       IN  /\ ret' = [op |-> args.op, value |-> r.value]
           /\ effects' = [effects EXCEPT !.providerCalls = r.calls]
    /\ UNCHANGED <<args, now, cache>>

NextQuestions ==
    \/ CallDedupeQuestions
    \/ CallFetchSearchQuestions

SpecQuestions == InitQuestions /\ [][NextQuestions]_vars

(***************************************************************************)
(* The claims about the search questions, stated without the loops.        *)
(***************************************************************************)
\* Two texts have the same normalized text iff their lower-case words, the
\* pieces between their runs of white space, are the same.
Words(text) == filterMinLength(splitWhiteSpace(toLowerCase(text)), 1)

\* The place of the i-th seed keyword in descending order of score, ties in
\* the order of the input
Rank(ks, i) ==
    1 + Cardinality({j \in 1..Len(ks) :
                       \/ ~RatLeq(ks[j].score, ks[i].score)
                       \/ RatEq(ks[j].score, ks[i].score) /\ j < i})

\* The index of the seed keyword of rank r
AtRank(ks, r) == CHOOSE i \in 1..Len(ks) : Rank(ks, i) = r

Calls(ks) == Min(TopSearchKeywords, Len(ks))

\* The questions of the successful calls, rank after rank
RECURSIVE Accumulated(_, _, _)
Accumulated(ks, os, r) ==
    IF r > Calls(ks) THEN <<>>
    ELSE (IF os[r] = "ok"
          THEN mockQuestions(ks[AtRank(ks, r)].value, "google") ELSE <<>>)
         \o Accumulated(ks, os, r + 1)

\* What the deduplication was given
DedupeInput ==
    IF args.op = "dedupeQuestions" THEN args.questions
    ELSE Accumulated(args.seedKeywords, args.outcomes, 1)

\* The questions of input that are the first of their normalized text, in
\* the order of the input
FirstOccurrences(input) ==
    LET marked(w) ==
            [i \in 1..Len(input) |->
               [question |-> input[i],
                first |-> \A j \in 1..(i - 1) : w[j] # w[i]]]
        kept(m) == SelectSeq(m, LAMBDA x : x.first)
        questions(k) == [i \in 1..Len(k) |-> k[i].question]
    IN  questions(kept(marked(Tuple([i \in 1..Len(input) |->
                                        Words(input[i].text)]))))

\* No two questions of out have the same normalized text
NoDuplicates(out) ==
    \E w \in {Tuple([i \in 1..Len(out) |-> Words(out[i].text)])} :
       \A i \in 1..Len(out) : \A j \in 1..Len(out) : w[i] = w[j] => i = j

\* C6: what dedupeQuestions and fetchSearchQuestions return holds no two
\* questions of the same normalized text; what is kept is the first
\* question of each normalized text of the input, in the input's order.
C6_DedupeKeepsFirstOccurrences ==
    ret.op \in {"dedupeQuestions", "fetchSearchQuestions"} =>
        /\ NoDuplicates(ret.value)
        /\ ret.value = FirstOccurrences(DedupeInput)

\* Texts that differ in case and white space only were collapsed, by
\* dedupeQuestions and inside fetchSearchQuestions.
C6_Witness ==
    /\ ret.op = "dedupeQuestions"
    /\ Len(args.questions) = 3
    /\ Len(ret.value) = 2
    /\ args.questions[1].text # args.questions[3].text
    /\ Words(args.questions[1].text) = Words(args.questions[3].text)
    /\ ret.value[1] = args.questions[1]

\* C7: fetchSearchQuestions calls the provider once for each of the (at
\* most 5) seed keywords of the highest score, in descending order of
\* score with ties in the order of the input, whichever calls are rejected;
\* a rejected call adds no question, and the questions of the other calls
\* come in the order of their keywords' ranks.
C7_ProviderCalledPerKeywordInRankOrder ==
    ret.op = "fetchSearchQuestions" =>
        LET ks == args.seedKeywords
        IN  /\ Len(effects.providerCalls) = Calls(ks)
            /\ \A r \in 1..Calls(ks) :
                  effects.providerCalls[r] = ks[AtRank(ks, r)].value
            /\ ret.value
                 = FirstOccurrences(Accumulated(ks, args.outcomes, 1))

\* Six seed keywords out of score order, the second and the fifth call
\* rejected, the calls after them made and their questions returned.
C7_Witness ==
    /\ ret.op = "fetchSearchQuestions"
    /\ Len(args.seedKeywords) = 6
    /\ args.seedKeywords[1].score = Rat(1, 2)
    /\ args.seedKeywords[2].score = Rat(2, 2)
    /\ args.outcomes = <<"ok", "rejected", "ok", "ok", "rejected">>
    /\ Len(effects.providerCalls) = 5
    /\ effects.providerCalls[1] = args.seedKeywords[2].value
    /\ Len(ret.value) >= 3

(***************************************************************************)
(* runAnalysis.ts: the scoring functions.                                  *)
(***************************************************************************)
questionTokens_NoMinLength(text) ==
    filterMinLength(splitWhiteSpace(toLowerCase(text)), 1)

\* The tokens of a question: lower case, split on white space, length >= 2.
questionTokens(text) == filterMinLength(splitWhiteSpace(toLowerCase(text)), 2)

\* searchTokens.filter(token => pageTokens.includes(token))
intersection(searchTokens, pageTokens) ==
    SelectSeq(searchTokens, LAMBDA token : includes(pageTokens, token))

isCovered_LastWins(searchTokens, pageQuestions) ==
    IF pageQuestions = <<>> THEN FALSE
    ELSE Len(intersection(searchTokens,
                          questionTokens(pageQuestions[Len(pageQuestions)])))
         >= 1

\* The inner loop: the page questions in order, left at the first match.
RECURSIVE isCovered(_, _)
isCovered(searchTokens, pageQuestions) ==
    IF pageQuestions = <<>> THEN FALSE
    ELSE IF Len(intersection(searchTokens,
                             questionTokens(Head(pageQuestions)))) >= 1
         THEN TRUE
         ELSE isCovered(searchTokens, Tail(pageQuestions))

\* The outer loop: coveredCount after the search questions given.
RECURSIVE coveredCount(_, _)
coveredCount(pageQuestions, searchQuestions) ==
    IF searchQuestions = <<>> THEN 0
    ELSE (IF isCovered(questionTokens(Head(searchQuestions).text),
                       pageQuestions)
          THEN 1 ELSE 0)
         + coveredCount(pageQuestions, Tail(searchQuestions))

\* calculateQuestionCoverage: the ratio coveredCount / totalSearchQuestions
calculateQuestionCoverage(pageQuestions, searchQuestions) ==
    IF Len(searchQuestions) = 0 THEN Rat(0, 1)
    ELSE Rat(coveredCount(pageQuestions, searchQuestions),
             Len(searchQuestions))

calculateStructureScore_NoTrim(meta, headings, pageQuestions) ==
    40 + (IF Truthy(meta.title) THEN 10 ELSE 0)
       + (IF Truthy(meta.description) THEN 10 ELSE 0)
       + (IF Len(headings) >= 2 THEN 10 ELSE 0)
       + (IF Len(pageQuestions) >= 3 THEN 10 ELSE 0)

\* calculateStructureScore
calculateStructureScore(meta, headings, pageQuestions) ==
    LET s0 == 40
        s1 == IF Truthy(meta.title) /\ Len(trim(meta.title)) > 0
              THEN s0 + 10 ELSE s0
        s2 == IF Truthy(meta.description) /\ Len(trim(meta.description)) > 0
              THEN s1 + 10 ELSE s1
        s3 == IF Len(headings) >= 2 THEN s2 + 10 ELSE s2
        s4 == IF Len(pageQuestions) >= 3 THEN s3 + 10 ELSE s3
    IN  Min(100, Max(0, s4))

(***************************************************************************)
(* SpecScore: the two scoring functions applied to bounded inputs.         *)
(***************************************************************************)
MaxPageQuestions == 2

MaxSearchQuestions == 3

MaxCount == 3

\* Question texts: "aa bb", "AA cc", "a b" (no token of length 2) and
\* " bb<TAB>dd " (a tab, white space at both ends).
QuestionTexts ==
    { <<"a", "a", " ", "b", "b">>,
      <<"A", "A", " ", "c", "c">>,
      <<"a", " ", "b">>,
      <<" ", "b", "b", "\t", "d", "d", " ">> }

\* meta.title and meta.description: null, "", "  " and "T"
MetaTexts == {Null, <<>>, <<" ", " ">>, <<"T">>}

ScoreArgs ==
    {[op |-> "calculateStructureScore",
      meta |-> [title |-> t, description |-> d],
      headings |-> h, pageQuestions |-> p] :
        t \in MetaTexts, d \in MetaTexts,
        h \in SeqUpTo({<<"H">>}, MaxCount),
        p \in SeqUpTo({<<"a", "a", "?">>}, MaxCount)}
    \cup
    {[op |-> "calculateQuestionCoverage",
      pageQuestions |-> p, searchQuestions |-> s] :
        p \in SeqUpTo(QuestionTexts, MaxPageQuestions),
        s \in SeqUpTo({[text |-> t] : t \in QuestionTexts},
                      MaxSearchQuestions)}

InitScore ==
    /\ args \in ScoreArgs
    /\ ret = NoRet
    /\ now = 0
    /\ cache = <<>>
    /\ effects = NoEffects

CallStructureScore ==
    /\ args.op = "calculateStructureScore"
    /\ ret = NoRet
    /\ ret' = [op |-> args.op,
               value |-> calculateStructureScore(args.meta, args.headings,
                                                 args.pageQuestions)]
    /\ UNCHANGED <<args, now, cache, effects>>

CallQuestionCoverage ==
    /\ args.op = "calculateQuestionCoverage"
    /\ ret = NoRet
    /\ ret' = [op |-> args.op, appended |-> FALSE, before |-> Rat(0, 1),
               value |-> calculateQuestionCoverage(args.pageQuestions,
                                                   args.searchQuestions)]
    /\ UNCHANGED <<args, now, cache, effects>>

\* The caller adds one page question and asks for the coverage again.
AppendPageQuestion(q) ==
    /\ args.op = "calculateQuestionCoverage"
    /\ ret # NoRet
    /\ Len(args.pageQuestions) < MaxPageQuestions + 1
    /\ args' = [args EXCEPT !.pageQuestions = Append(@, q)]
    /\ ret' = [op |-> args.op, appended |-> TRUE, before |-> ret.value,
               value |-> calculateQuestionCoverage(
                             Append(args.pageQuestions, q),
                             args.searchQuestions)]
    /\ UNCHANGED <<now, cache, effects>>

NextScore ==
    \/ CallStructureScore
    \/ CallQuestionCoverage
    \/ \E q \in QuestionTexts : AppendPageQuestion(q)

SpecScore == InitScore /\ [][NextScore]_vars

(***************************************************************************)
(* The scoring claims, stated without the code's loops.                    *)
(***************************************************************************)
\* The lower-case tokens of a text: its maximal runs of characters that are
\* not white space, of length at least 2.
TokenSet(text) ==
    LET l == toLowerCase(text)
    IN  {SubSeq(l, p[1], p[2]) : p \in
           {p \in (1..Len(l)) \X (1..Len(l)) :
              /\ p[2] - p[1] + 1 >= 2
              /\ \A k \in p[1]..p[2] : l[k] \notin WhiteSpace
              /\ (p[1] = 1 \/ l[p[1] - 1] \in WhiteSpace)
              /\ (p[2] = Len(l) \/ l[p[2] + 1] \in WhiteSpace)}}

CoveredQuestions(pageQuestions, searchQuestions) ==
    {i \in 1..Len(searchQuestions) :
       \E j \in 1..Len(pageQuestions) :
          TokenSet(searchQuestions[i].text) \cap TokenSet(pageQuestions[j])
            # {}}

\* C2: calculateQuestionCoverage returns covered / total, where a search
\* question is covered iff some page question shares a lower-case token of
\* length >= 2 with it; it is 0 without search questions, 0 without page
\* questions, and lies in [0,1].
C2_CoverageIsCoveredOverTotal ==
    ret.op = "calculateQuestionCoverage" =>
        LET P == args.pageQuestions
            S == args.searchQuestions
        IN  /\ S # <<>> =>
                 RatEq(ret.value,
                       Rat(Cardinality(CoveredQuestions(P, S)), Len(S)))
            /\ S = <<>> => RatEq(ret.value, Rat(0, 1))
            /\ P = <<>> => RatEq(ret.value, Rat(0, 1))
            /\ ret.value.d > 0
            /\ RatLeq(Rat(0, 1), ret.value)
            /\ RatLeq(ret.value, Rat(1, 1))

\* A coverage strictly between 0 and 1 with two page questions, where a
\* text of one-character tokens is among the search questions.
C2_Witness ==
    /\ ret.op = "calculateQuestionCoverage"
    /\ Len(args.pageQuestions) = 2
    /\ 0 < ret.value.n
    /\ ret.value.n < ret.value.d
    /\ \E i \in 1..Len(args.searchQuestions) :
          args.searchQuestions[i].text = <<"a", " ", "b">>
    /\ \E j \in 1..Len(args.pageQuestions) :
          args.pageQuestions[j] = <<"a", " ", "b">>

Present(s) == s # Null /\ \E i \in 1..Len(s) : s[i] \notin WhiteSpace

Satisfied(a) ==
    {c \in {"title", "description", "headings", "pageQuestions"} :
       \/ c = "title" /\ Present(a.meta.title)
       \/ c = "description" /\ Present(a.meta.description)
       \/ c = "headings" /\ Len(a.headings) >= 2
       \/ c = "pageQuestions" /\ Len(a.pageQuestions) >= 3}

\* C3: calculateStructureScore returns 40 plus 10 for each of the four
\* conditions that holds (title present and not blank, description present
\* and not blank, at least 2 headings, at least 3 page questions), each
\* counted on its own, and the result is in [40,100].
C3_StructureScoreIncrements ==
    ret.op = "calculateStructureScore" =>
        /\ ret.value = 40 + 10 * Cardinality(Satisfied(args))
        /\ ret.value \in 40..100

\* A blank title beside a description, two headings and three questions.
C3_Witness ==
    /\ ret.op = "calculateStructureScore"
    /\ args.meta.title = <<" ", " ">>
    /\ args.meta.description = <<"T">>
    /\ Len(args.headings) = 2
    /\ Len(args.pageQuestions) = 3
    /\ ret.value = 70

\* C5: the coverage for the page questions with one more appended is at
\* least the coverage before the append.
C5_CoverageMonotone ==
    (ret.op = "calculateQuestionCoverage" /\ ret.appended) =>
        RatLeq(ret.before, ret.value)

\* An append that raised a coverage that was already positive.
C5_Witness ==
    /\ ret.op = "calculateQuestionCoverage"
    /\ ret.appended
    /\ ret.before.n > 0
    /\ ~RatLeq(ret.value, ret.before)

(***************************************************************************)
(* htmlAnalyzer.ts                                                         *)
(***************************************************************************)
\* The index of the first place from index i on where sub occurs in s,
\* Len(s) + 1 when there is none
indexOf(s, sub, i) ==
    Least({k \in i..(Len(s) - Len(sub) + 1) :
             SubSeq(s, k, k + Len(sub) - 1) = sub} \cup {Len(s) + 1})

\* String.prototype.includes
includesText(s, sub) == indexOf(s, sub, 1) <= Len(s)

\* String.prototype.startsWith
startsWith(s, prefix) ==
    Len(prefix) <= Len(s) /\ SubSeq(s, 1, Len(prefix)) = prefix

\* The index of the first match of /[.!?]\s+/ in s, Len(s) + 1 when there
\* is none
nextSentenceEnd(s) ==
    Least({k \in 1..(Len(s) - 1) :
             s[k] \in {".", "!", "?"} /\ s[k + 1] \in WhiteSpace}
          \cup {Len(s) + 1})

\* text.split(/[.!?]\s+/)
RECURSIVE splitSentences(_)
splitSentences(s) ==
    LET i == nextSentenceEnd(s)
    IN  IF i > Len(s) THEN <<s>>
        ELSE <<SubSeq(s, 1, i - 1)>>
             \o splitSentences(SubSeq(s, nextOther(s, i + 1), Len(s)))

MinSentenceLength == 10

questionKeywords ==
    <<<<":EO:", ":TTEOH:", ":GE:">>,
       <<":EON:", ":JE:">>,
       <<":WAE:">>,
       <<":MU:", ":EOT:">>,
       <<":GA:", ":NEUNG:">>,
       <<":BANG:", ":BEOP:">>,
       <<":BI:", ":YONG:">>,
       <<":GI:", ":GAN:">>,
       <<":CHA:", ":I:">>,
       <<":CHU:", ":CHEON:">>,
       <<":EO:", ":DI:">>,
       <<":NU:", ":GA:">>>>

\* extractQuestions: the sentences longer than 10 characters that hold a
\* question mark or one of the question keywords
extractQuestions(text) ==
    LET pieces == splitSentences(text)
        trimmed == Tuple([i \in 1..Len(pieces) |-> trim(pieces[i])])
        sentences == SelectSeq(trimmed,
                               LAMBDA x : Len(x) > MinSentenceLength)
    IN  SelectSeq(sentences,
                  LAMBDA sentence :
                     \/ includesText(sentence, <<"?">>)
                     \/ \E k \in 1..Len(questionKeywords) :
                           includesText(sentence, questionKeywords[k]))

\* attr?.trim() || null, with Null for a selector that matches nothing
trimOrNull(s) ==
    IF s = Null THEN Null
    ELSE IF Len(trim(s)) = 0 THEN Null
    ELSE trim(s)

ContentLimit == 5000

\* extractMetaAndContent, of what the selectors find in the document: the
\* text of <title> ("" without one), the attributes (Null when missing),
\* the texts of the h1, h2 and h3 elements, and the text of <body>
extractMetaAndContent(html) ==
    LET headingTexts ==
            Tuple([i \in 1..Len(html.headings) |-> trim(html.headings[i])])
        bodyText == trim(collapseWhiteSpace(html.body))
        contentText == substring0(bodyText, ContentLimit)
    IN  [meta |-> [title |-> trimOrNull(html.title),
                   description |-> trimOrNull(html.description),
                   keywords |-> trimOrNull(html.keywords),
                   ogTitle |-> trimOrNull(html.ogTitle),
                   ogDescription |-> trimOrNull(html.ogDescription),
                   canonical |-> trimOrNull(html.canonical)],
         headings |-> SelectSeq(headingTexts, LAMBDA text : Len(text) > 0),
         contentText |-> contentText,
         pageQuestions |-> extractQuestions(contentText)]

fetchHtml_EmptyOnFailure(url, response) ==
    IF response.kind = "ok" THEN [threw |-> FALSE, value |-> response.html]
    ELSE [threw |-> FALSE,
          value |-> [title |-> <<>>, description |-> Null, keywords |-> Null,
                     ogTitle |-> Null, ogDescription |-> Null,
                     canonical |-> Null, headings |-> <<>>, body |-> <<>>]]

\* fetchHtml, with the way the request ends: [kind |-> "network", message]
\* when fetch rejects, [kind |-> "status", status, statusText] for a
\* response that is not ok, [kind |-> "ok", html] otherwise.
fetchHtml(url, response) ==
    CASE response.kind = "network" ->
            [threw |-> TRUE, message |-> response.message]
      [] response.kind = "status" ->
            [threw |-> TRUE,
             message |-> <<"F", "a", "i", "l", "e", "d", " ", "t", "o", " ",
                           "f", "e", "t", "c", "h", " ">>
                         \o url \o <<":", " ">> \o response.status
                         \o <<" ">> \o response.statusText]
      [] OTHER -> [threw |-> FALSE, value |-> response.html]

(***************************************************************************)
(* normalizeUrl, for the URLs of the shape scheme://host/path?query with   *)
(* the scheme http or https in any case, without user, port, fragment,     *)
(* dot segment or a character the URL parser would escape.  Any other      *)
(* string without "://" makes new URL() throw.                             *)
(***************************************************************************)
SchemeSeparator == <<":", "/", "/">>

\* The end of the host: the index of the first "/" or "?" from index i on,
\* Len(s) + 1 when there is none
hostEnd(s, i) ==
    Least({k \in i..Len(s) : s[k] \in {"/", "?"}} \cup {Len(s) + 1})

\* Whether new URL(url) succeeds
canParse(url) ==
    LET i == indexOf(url, SchemeSeparator, 1)
    IN  /\ i <= Len(url)
        /\ toLowerCase(SubSeq(url, 1, i - 1))
             \in {<<"h", "t", "t", "p">>, <<"h", "t", "t", "p", "s">>}
        /\ hostEnd(url, i + 3) > i + 3

\* new URL(url): protocol, hostname, pathname and search of a URL that
\* parses
parseUrl(url) ==
    LET i == indexOf(url, SchemeSeparator, 1)
        h == hostEnd(url, i + 3)
        q == indexOf(url, <<"?">>, h)
        path == SubSeq(url, h, q - 1)
    IN  [protocol |-> toLowerCase(SubSeq(url, 1, i - 1)) \o <<":">>,
         hostname |-> toLowerCase(SubSeq(url, i + 3, h - 1)),
         pathname |-> IF path = <<>> THEN <<"/">> ELSE path,
         search |-> IF q >= Len(url) THEN <<>>
                    ELSE SubSeq(url, q, Len(url))]

\* URL.prototype.toString
urlToString(urlObj) ==
    urlObj.protocol \o <<"/", "/">> \o urlObj.hostname \o urlObj.pathname
    \o urlObj.search

\* hostname.replace(/^www\./, '')
stripWww(hostname) ==
    IF startsWith(hostname, <<"w", "w", "w", ".">>)
    THEN SubSeq(hostname, 5, Len(hostname))
    ELSE hostname

\* s.split(sep) for a separator of one character
RECURSIVE splitAt(_, _)
splitAt(s, sep) ==
    LET i == indexOf(s, <<sep>>, 1)
    IN  IF i > Len(s) THEN <<s>>
        ELSE <<SubSeq(s, 1, i - 1)>>
             \o splitAt(SubSeq(s, i + 1, Len(s)), sep)

\* The characters the form encoding of URLSearchParams leaves as they are
FormUnreserved == Digits \cup LowerCase \cup UpperCase \cup {"*", "-", ".", "_"}

\* The form encoding of one character
formEncodeChar(c) ==
    CASE c \in FormUnreserved -> <<c>>
      [] c = " " -> <<"+">>
      [] c = "!" -> <<"%", "2", "1">>
      [] c = "'" -> <<"%", "2", "7">>
      [] c = "(" -> <<"%", "2", "8">>
      [] c = ")" -> <<"%", "2", "9">>
      [] c = "~" -> <<"%", "7", "E">>
      [] OTHER -> encodeChar(c)

RECURSIVE formEncode(_)
formEncode(s) ==
    IF s = <<>> THEN <<>>
    ELSE formEncodeChar(Head(s)) \o formEncode(Tail(s))

\* The characters of one byte that the form encoding escapes
FormEscaped ==
    {" ", "\t", "?", ",", ":", "/", "=", "&", "#", "%", "+", ";", "@", "$",
     "!", "'", "(", ")", "~"}

\* The form decoding: "+" is a space and %XX is the character of that
\* byte (an escape of no character of FormEscaped stays as it is)
RECURSIVE formDecode(_)
formDecode(s) ==
    LET escaped == {c \in FormEscaped :
                      SubSeq(s, 1, 3) = IF c = " " THEN <<"%", "2", "0">>
                                        ELSE formEncodeChar(c)}
    IN  IF s = <<>> THEN <<>>
        ELSE IF Head(s) = "+" THEN <<" ">> \o formDecode(Tail(s))
        ELSE IF Head(s) = "%" /\ Len(s) >= 3 /\ escaped # {}
             THEN <<CHOOSE c \in escaped : TRUE>>
                  \o formDecode(SubSeq(s, 4, Len(s)))
        ELSE <<Head(s)>> \o formDecode(Tail(s))

\* new URLSearchParams(search): the pairs [key, value] in order
searchParams(search) ==
    LET query == IF startsWith(search, <<"?">>)
                 THEN SubSeq(search, 2, Len(search)) ELSE search
        pieces == SelectSeq(splitAt(query, "&"), LAMBDA p : Len(p) > 0)
        pair(p) == LET e == indexOf(p, <<"=">>, 1)
                   IN  [key |-> formDecode(SubSeq(p, 1, e - 1)),
                        value |-> formDecode(SubSeq(p, e + 1, Len(p)))]
    IN  Tuple([i \in 1..Len(pieces) |-> pair(pieces[i])])

\* URLSearchParams.prototype.toString
paramsToString(params) ==
    join(Tuple([i \in 1..Len(params) |->
                  formEncode(params[i].key) \o <<"=">>
                  \o formEncode(params[i].value)]),
         <<"&">>)

\* normalizeUrl
normalizeUrl(url) ==
    IF ~canParse(url) THEN url
    ELSE LET urlObj == parseUrl(url)
             params == SelectSeq(searchParams(urlObj.search),
                                 LAMBDA p :
                                    ~startsWith(p.key,
                                                <<"u", "t", "m", "_">>))
             search == paramsToString(params)
             updated == [urlObj EXCEPT
                           !.protocol = <<"h", "t", "t", "p", "s", ":">>,
                           !.hostname = stripWww(urlObj.hostname),
                           !.search = IF search = <<>> THEN <<>>
                                      ELSE <<"?">> \o search]
             normalized == urlToString(updated)
         IN  IF normalized[Len(normalized)] = "/"
                /\ updated.pathname # <<"/">>
             THEN SubSeq(normalized, 1, Len(normalized) - 1)
             ELSE normalized

(***************************************************************************)
(* runAnalysis.ts: runAnalysis                                             *)
(***************************************************************************)
\* questionCoverage * 100
timesHundred(ratio) == Rat(ratio.n * 100, ratio.d)

\* structureScore * 0.4 + questionCoverageScore * 0.6, as an exact ratio.
\* The doubles of the code give the same rounded value: the structure score
\* is a multiple of 10 and the ratio has a denominator of at most 15 (five
\* provider calls of three questions).
weightedSum(structureScore, questionCoverageScore) ==
    Rat(4 * structureScore * questionCoverageScore.d
          + 6 * questionCoverageScore.n,
        10 * questionCoverageScore.d)

MathRound_Floor(x) == x.n \div x.d

\* Math.round: the nearest integer, a half rounded up
MathRound(x) == (2 * x.n + x.d) \div (2 * x.d)

\* "분석 실행 중 오류가 발생했습니다: "
RunAnalysisError ==
    <<":BUN:", ":SEOK:", " ", ":SIL:", ":HAENG:", " ", ":JUNG:", " ",
      ":O:", ":RYU:", ":GA:", " ", ":BAL:", ":SAENG:", ":HAESS:", ":SEUP:",
      ":NI:", ":DA:", ":", " ">>

\* runAnalysis, with the way the page request ends and the way each
\* provider call ends: what it returns or throws, and the provider calls
\* it made
runAnalysis(url, response, outcomes) ==
    LET html == fetchHtml(url, response)
    IN  IF html.threw
        THEN [threw |-> TRUE,
              message |-> RunAnalysisError \o html.message,
              calls |-> <<>>]
        ELSE LET page == extractMetaAndContent(html.value)
                 seedKeywords ==
                     extractSeedKeywords(page.meta, page.headings,
                                         page.contentText)
                 search == fetchSearchQuestions(seedKeywords, outcomes)
                 structureScore ==
                     calculateStructureScore(page.meta, page.headings,
                                             page.pageQuestions)
                 questionCoverage ==
                     calculateQuestionCoverage(page.pageQuestions,
                                               search.value)
                 questionCoverageScore == timesHundred(questionCoverage)
                 finalScore ==
                     MathRound(weightedSum(structureScore,
                                           questionCoverageScore))
             IN  [threw |-> FALSE,
                  value |->
                      [url |-> url,
                       normalizedUrl |-> normalizeUrl(url),
                       meta |-> page.meta,
                       seedKeywords |-> seedKeywords,
                       pageQuestions |-> page.pageQuestions,
                       searchQuestions |-> search.value,
                       questionClusters |-> <<>>,
                       scores |->
                           [structureScore |-> structureScore,
                            questionCoverage |-> questionCoverageScore,
                            finalScore |-> finalScore]],
                  calls |-> search.calls]

(***************************************************************************)
(* SpecAnalysis: runAnalysis applied to a URL, a way the page request ends *)
(* and a way each provider call ends.                                      *)
(***************************************************************************)
\* https://example.com/a, http://www.example.com/a/?utm_source=x and
\* https://example.com/b
Urls ==
    { <<"h", "t", "t", "p", "s", ":", "/", "/", "e", "x", "a", "m", "p",
        "l", "e", ".", "c", "o", "m", "/", "a">>,
      <<"h", "t", "t", "p", ":", "/", "/", "w", "w", "w", ".", "e", "x",
        "a", "m", "p", "l", "e", ".", "c", "o", "m", "/", "a", "/", "?",
        "u", "t", "m", "_", "s", "o", "u", "r", "c", "e", "=", "x">>,
      <<"h", "t", "t", "p", "s", ":", "/", "/", "e", "x", "a", "m", "p",
        "l", "e", ".", "c", "o", "m", "/", "b">> }

\* What the selectors find in four documents: an English page with one
\* question, an empty page, a Korean page with three questions, and a page
\* of one word
Pages ==
    << [title |-> <<" ", "T", "i", "r", "e", " ">>,
        description |-> <<"t", "i", "r", "e", "s", " ">>,
        keywords |-> Null, ogTitle |-> Null, ogDescription |-> Null,
        canonical |-> Null,
        headings |-> <<<<"t", "i", "r", "e", " ", "g", "u", "i", "d", "e">>, <<"c", "o", "s", "t">>, <<" ", " ">>>>,
        body |->
          <<"t", "i", "r", "e", " ", ":EOL:", ":MA:", ":NA:", " ", " ",
            ":JA:", ":JU:", " ", ":GYO:", ":CHE:", "?">>],
       [title |-> <<>>,
        description |-> <<" ">>,
        keywords |-> Null, ogTitle |-> Null, ogDescription |-> Null,
        canonical |-> Null,
        headings |-> <<>>,
        body |->
          <<" ">>],
       [title |-> <<":GYO:", ":CHE:", " ", ":BI:", ":YONG:">>,
        description |-> <<":GYO:", ":CHE:", " ", ":BANG:", ":BEOP:", " ", ":CHU:", ":CHEON:">>,
        keywords |-> Null, ogTitle |-> <<":GYO:", ":CHE:">>, ogDescription |-> Null,
        canonical |-> Null,
        headings |-> <<<<" ", ":GYO:", ":CHE:", " ">>, <<":BI:", ":YONG:">>>>,
        body |->
          <<":GYO:", ":CHE:", " ", ":BI:", ":YONG:", ":EUN:", " ", ":EO:",
            ":NEU:", " ", ":JEONG:", ":DO:", ":IN:", ":GA:", ".", " ",
            ":GYO:", ":CHE:", " ", ":BANG:", ":BEOP:", " ", ":CHU:",
            ":CHEON:", " ", ":GI:", ":GAN:", " ", ":CHA:", ":I:", "!", " ",
            " ", ":EON:", ":JE:", " ", ":GYO:", ":CHE:", ":HAE:", ":YA:",
            " ", ":HA:", ":NA:", ":YO:", "?">>],
       [title |-> <<"F", "A", "Q">>,
        description |-> Null,
        keywords |-> Null, ogTitle |-> Null, ogDescription |-> Null,
        canonical |-> Null,
        headings |-> <<>>,
        body |-> <<"f", "a", "q", " ", "f", "a", "q", " ", "f", "a", "q",
                   "?">>] >>

\* The ways a page request ends
Responses ==
    {[kind |-> "network",
      message |-> <<"f", "e", "t", "c", "h", " ", "f", "a", "i", "l", "e",
                    "d">>],
     [kind |-> "status", status |-> <<"4", "0", "4">>,
      statusText |-> <<"N", "o", "t", " ", "F", "o", "u", "n", "d">>]}
    \cup {[kind |-> "ok", html |-> Pages[i]] : i \in 1..Len(Pages)}

AnalysisArgs ==
    {[op |-> "runAnalysis", url |-> u, response |-> r, outcomes |-> os] :
        u \in Urls, r \in Responses,
        os \in [1..TopSearchKeywords -> ProviderOutcomes]}

InitAnalysis ==
    /\ args \in AnalysisArgs
    /\ ret = NoRet
    /\ now = 0
    /\ cache = <<>>
    /\ effects = NoEffects

CallRunAnalysis ==
    /\ args.op = "runAnalysis"
    /\ ret = NoRet
    /\ \E r \in {runAnalysis(args.url, args.response, args.outcomes)} :
           /\ ret' = IF r.threw
                     THEN [op |-> args.op, threw |-> TRUE,
                           message |-> r.message]
                     ELSE [op |-> args.op, threw |-> FALSE,
                           value |-> r.value]
           /\ effects' = [effects EXCEPT !.fetched = TRUE,
                                         !.providerCalls = r.calls]
    /\ UNCHANGED <<args, now, cache>>

NextAnalysis == CallRunAnalysis

SpecAnalysis == InitAnalysis /\ [][NextAnalysis]_vars

(***************************************************************************)
(* The claim about the scores of a run, stated without the rounding        *)
(* function.                                                               *)
(***************************************************************************)
\* The search questions that share a token with some page question
SharedTokenQuestions(pageQuestions, searchQuestions) ==
    LET tokens(text) ==
            {questionTokens(text)[k] : k \in 1..Len(questionTokens(text))}
    IN  {i \in 1..Len(searchQuestions) :
           \E j \in 1..Len(pageQuestions) :
              tokens(searchQuestions[i].text) \cap tokens(pageQuestions[j])
                # {}}

\* C1: for every run of runAnalysis that returns a result, the stored
\* questionCoverage is 100 times the share of covered search questions,
\* and finalScore is the integer nearest to
\* structureScore * 0.4 + questionCoverage * 0.6 with a half rounded up
\* (finalScore - 1/2 <= the sum < finalScore + 1/2), an integer of 0..100;
\* structureScore 70 with questionCoverage 50 gives 58.
C1_FinalScoreIsRoundedWeightedSum ==
    (ret.op = "runAnalysis" /\ ~ret.threw) =>
        LET s == ret.value.scores.structureScore
            q == ret.value.scores.questionCoverage
            F == ret.value.scores.finalScore
            total == Len(ret.value.searchQuestions)
            covered == Cardinality(
                           SharedTokenQuestions(ret.value.pageQuestions,
                                                ret.value.searchQuestions))
        IN  /\ IF total = 0 THEN RatEq(q, Rat(0, 1))
               ELSE RatEq(q, Rat(100 * covered, total))
            /\ F \in 0..100
            \* 10 q.d (2F - 1) <= 2 (4 s q.d + 6 q.n) < 10 q.d (2F + 1)
            /\ 10 * q.d * (2 * F - 1) <= 2 * (4 * s * q.d + 6 * q.n)
            /\ 2 * (4 * s * q.d + 6 * q.n) < 10 * q.d * (2 * F + 1)
            /\ (s = 70 /\ RatEq(q, Rat(50, 1))) => F = 58

\* A run with structureScore 70 and half of the search questions covered
\* returned finalScore 58.
C1_Witness ==
    /\ ret.op = "runAnalysis"
    /\ ~ret.threw
    /\ ret.value.scores.structureScore = 70
    /\ RatEq(ret.value.scores.questionCoverage, Rat(50, 1))
    /\ ret.value.scores.finalScore = 58
    /\ Len(ret.value.searchQuestions) = 6

(***************************************************************************)
(* The /api/analyze route: the cache of results in the table               *)
(* analysis_history, one row for each normalized_url, and the handler of   *)
(* POST.  Time is counted in hours.  The database client answers a query   *)
(* with { data, error }: a query that fails returns its error.             *)
(***************************************************************************)
\* oneDayAgo.setDate(oneDayAgo.getDate() - 1): one day of the calendar
\* back, 24 hours on a server whose offset from UTC stays as it is
OneDay == 24

HalfDay == OneDay \div 2

\* normalizeUrl of the URLs requested, each computed once
NormalizedUrls ==
    {[url |-> u, normalizedUrl |-> normalizeUrl(u)] : u \in Urls}

normalizedUrlOf(url) ==
    (CHOOSE x \in NormalizedUrls : x.url = url).normalizedUrl

\* The keys of the table
Keys == {x.normalizedUrl : x \in NormalizedUrls}

QueryOutcomes == {"ok", "error"}

getCachedAnalysis_StrictlyWithin(table, normalizedUrl, time, outcome) ==
    LET oneDayAgo == time - OneDay
        rows == {k \in DOMAIN table :
                   /\ table[k].present
                   /\ table[k].normalized_url = normalizedUrl
                   /\ table[k].updated_at > oneDayAgo}
    IN  IF outcome = "error" \/ rows = {} THEN [found |-> FALSE]
        ELSE [found |-> TRUE,
              value |-> table[CHOOSE k \in rows : \A j \in rows :
                                 table[j].updated_at <= table[k].updated_at]
                          .result_json]

\* getCachedAnalysis at the moment time: the result_json of the latest row
\* with this normalized_url and updated_at >= oneDayAgo; nothing (null) when
\* the query returns an error or no row
getCachedAnalysis(table, normalizedUrl, time, outcome) ==
    LET oneDayAgo == time - OneDay
        rows == {k \in DOMAIN table :
                   /\ table[k].present
                   /\ table[k].normalized_url = normalizedUrl
                   /\ table[k].updated_at >= oneDayAgo}
    IN  IF outcome = "error" \/ rows = {} THEN [found |-> FALSE]
        ELSE [found |-> TRUE,
              value |-> table[CHOOSE k \in rows : \A j \in rows :
                                 table[j].updated_at <= table[k].updated_at]
                          .result_json]

saveAnalysisResult_Throws(table, result, time, outcome) ==
    IF outcome = "error"
    THEN [threw |-> TRUE, message |-> <<"e", "r", "r", "o", "r">>,
          table |-> table]
    ELSE [threw |-> FALSE,
          table |-> [table EXCEPT ![result.normalizedUrl] =
                       [present |-> TRUE,
                        url |-> result.url,
                        normalized_url |-> result.normalizedUrl,
                        geo_score |-> result.scores.finalScore,
                        question_coverage |-> result.scores.questionCoverage,
                        result_json |-> result,
                        updated_at |-> time]]]

\* saveAnalysisResult at the moment time: the upsert on normalized_url; an
\* error of the upsert is logged and nothing is thrown
saveAnalysisResult(table, result, time, outcome) ==
    IF outcome = "error" THEN [threw |-> FALSE, table |-> table]
    ELSE [threw |-> FALSE,
          table |-> [table EXCEPT ![result.normalizedUrl] =
                       [present |-> TRUE,
                        url |-> result.url,
                        normalized_url |-> result.normalizedUrl,
                        geo_score |-> result.scores.finalScore,
                        question_coverage |-> result.scores.questionCoverage,
                        result_json |-> result,
                        updated_at |-> time]]]

\* "url 필드가 포함된 JSON body가 필요합니다."
BadRequestError ==
    <<"u", "r", "l", " ", ":PIL:", ":DEU:", ":GA:", " ", ":PO:", ":HAM:",
      ":DOEN:", " ", "J", "S", "O", "N", " ", "b", "o", "d", "y", ":GA:",
      " ", ":PIL:", ":YO:", ":HAP:", ":NI:", ":DA:", ".">>

\* "분석 중 오류가 발생했습니다."
ServerError ==
    <<":BUN:", ":SEOK:", " ", ":JUNG:", " ", ":O:", ":RYU:", ":GA:", " ",
      ":BAL:", ":SAENG:", ":HAESS:", ":SEUP:", ":NI:", ":DA:", ".">>

\* The ways the provider calls of a request end: the placeholder provider
\* answers every call
ServiceOutcomes == {[i \in 1..TopSearchKeywords |-> "ok"]}

\* The ways the page request of a request to the route ends: the two
\* failures, the empty page and the page of one word
ServiceResponses ==
    {r \in Responses : r.kind = "ok" => r.html \in {Pages[2], Pages[4]}}

\* The runs of runAnalysis that a request can make, each computed once
Runs ==
    {[url |-> u, response |-> r, outcomes |-> os,
      run |-> runAnalysis(u, r, os)] :
        u \in Urls, r \in ServiceResponses, os \in ServiceOutcomes}

runOf(url, response, outcomes) ==
    (CHOOSE x \in Runs : /\ x.url = url
                         /\ x.response = response
                         /\ x.outcomes = outcomes).run

\* What a request did not come to use
Unused == "unused"

NoResponse == [kind |-> Unused]

\* Lines 108-114 of POST: the result of the run is stored and returned; the
\* catch of POST answers anything thrown on the way.
storeAndRespond(request, run, saved) ==
    IF saved.threw
    THEN [response |-> [op |-> "POST", status |-> 500,
                        error |-> ServerError, detail |-> saved.message],
          table |-> saved.table,
          effects |-> [fetched |-> TRUE, providerCalls |-> run.calls,
                       stored |-> TRUE],
          request |-> request]
    ELSE [response |-> [op |-> "POST", status |-> 200, fromCache |-> FALSE,
                        result |-> run.value],
          table |-> saved.table,
          effects |-> [fetched |-> TRUE, providerCalls |-> run.calls,
                       stored |-> TRUE],
          request |-> request]

\* Lines 105-121 of POST, after the run of the analysis: what runAnalysis
\* throws is answered by the catch of POST.
respondToRun(table, time, request, run, outcomes, store) ==
    IF run.threw
    THEN [response |-> [op |-> "POST", status |-> 500,
                        error |-> ServerError, detail |-> run.message],
          table |-> table,
          effects |-> [fetched |-> TRUE, providerCalls |-> <<>>,
                       stored |-> FALSE],
          request |-> request]
    ELSE storeAndRespond([request EXCEPT !.outcomes = outcomes,
                                         !.store = store],
                         run,
                         saveAnalysisResult(table, run.value, time, store))

\* The handler of POST at the moment time, with the body of the request and
\* the ways the cache lookup, the page request, the provider calls and the
\* upsert end: the response, the table afterwards, what was done, and the
\* request with the outcomes that were used.
POST(table, time, body, lookup, response, outcomes, store) ==
    LET request == [op |-> "POST", at |-> time, body |-> body,
                    lookup |-> Unused, response |-> NoResponse,
                    outcomes |-> <<>>, store |-> Unused]
    IN  IF ~body.json \/ ~body.urlIsString
        THEN [response |-> [op |-> "POST", status |-> 400,
                            error |-> BadRequestError],
              table |-> table, effects |-> NoEffects, request |-> request]
        ELSE
        LET url == body.url
            normalizedUrl == normalizedUrlOf(url)
            cached == getCachedAnalysis(table, normalizedUrl, time, lookup)
        IN  IF cached.found
            THEN [response |-> [op |-> "POST", status |-> 200,
                                fromCache |-> TRUE, result |-> cached.value],
                  table |-> table, effects |-> NoEffects,
                  request |-> [request EXCEPT !.lookup = lookup]]
            ELSE respondToRun(table, time,
                              [request EXCEPT !.lookup = lookup,
                                              !.response = response],
                              runOf(url, response, outcomes), outcomes,
                              store)

(***************************************************************************)
(* Spec: requests to the route, one after the other, and the passing of    *)
(* time.                                                                   *)
(***************************************************************************)
MaxTicks == 3

\* A body that is not JSON, one without a string url, and the URLs
Bodies ==
    {[json |-> FALSE, urlIsString |-> FALSE],
     [json |-> TRUE, urlIsString |-> FALSE]}
    \cup {[json |-> TRUE, urlIsString |-> TRUE, url |-> u] : u \in Urls}

NoArgs == [op |-> "none"]

Init ==
    /\ args = NoArgs
    /\ ret = NoRet
    /\ now = 0
    /\ cache = [k \in Keys |-> NoRow]
    /\ effects = NoEffects

Request ==
    \E body \in Bodies, lookup \in QueryOutcomes,
       response \in ServiceResponses,
       outcomes \in ServiceOutcomes, store \in QueryOutcomes :
       \E r \in {POST(cache, now, body, lookup, response, outcomes, store)} :
           \* an outcome that the request does not use is left at "ok"
           /\ r.request.lookup = Unused => lookup = "ok"
           /\ r.request.response = NoResponse => response.kind = "network"
           /\ r.request.store = Unused => store = "ok"
           /\ args' = r.request
           /\ ret' = r.response
           /\ cache' = r.table
           /\ effects' = r.effects
           /\ now' = now

Tick ==
    /\ now < MaxTicks * HalfDay
    /\ now' = now + HalfDay
    /\ UNCHANGED <<args, ret, cache, effects>>

Next ==
    \/ Request
    \/ Tick

Spec == Init /\ [][Next]_vars

(***************************************************************************)
(* The claims about the route.  A step that leaves the clock as it is      *)
(* handles the request args' at the moment now, on the table cache.        *)
(***************************************************************************)
ValidRequest(request) ==
    /\ request.op = "POST"
    /\ request.body.json
    /\ request.body.urlIsString

FetchFailed(request) ==
    /\ ValidRequest(request)
    /\ request.response.kind \in {"network", "status"}

FromCache(response) == response.status = 200 /\ response.fromCache

\* The row of the key was stored within the 24 hours before the moment time
StoredWithinADay(table, key, time) ==
    /\ table[key].present
    /\ table[key].updated_at >= time - OneDay
    /\ table[key].updated_at <= time

\* C8: when the request of the page fails (network error or a status that
\* is not a success), the request ends with the error response of status
\* 500 and no result, whose detail names what failed (the message of the
\* network error, or the URL and the status); no other valid request ends
\* with that response; the provider is not called, nothing is written and
\* the table is as before.
C8_FetchFailureEndsTheRun ==
    [][(now' = now /\ ValidRequest(args')) =>
         /\ ret'.status = 500 <=> FetchFailed(args')
         /\ FetchFailed(args') =>
              /\ DOMAIN ret' = {"op", "status", "error", "detail"}
              /\ args'.response.kind = "network" =>
                   includesText(ret'.detail, args'.response.message)
              /\ args'.response.kind = "status" =>
                   /\ includesText(ret'.detail,
                                   <<"F", "a", "i", "l", "e", "d", " ", "t",
                                     "o", " ", "f", "e", "t", "c", "h",
                                     " ">> \o args'.body.url)
                   /\ includesText(ret'.detail, args'.response.status)
              /\ effects'.fetched
              /\ effects'.providerCalls = <<>>
              /\ ~effects'.stored
              /\ cache' = cache]_vars

\* The page request of a URL whose row is more than a day old failed with a
\* status: the answer is the error, the old row is still there.
C8_Witness ==
    /\ FetchFailed(args)
    /\ args.response.kind = "status"
    /\ args.lookup = "ok"
    /\ ret.status = 500
    /\ cache[normalizeUrl(args.body.url)].present
    /\ cache[normalizeUrl(args.body.url)].updated_at < args.at - OneDay

UrlSchemes == {<<"h", "t", "t", "p">>, <<"h", "t", "t", "p", "s">>, <<"H", "T", "T", "P", "S">>}

UrlHosts ==
    {<<"e", "x", "a", "m", "p", "l", "e", ".", "c", "o", "m">>,
     <<"w", "w", "w", ".", "e", "x", "a", "m", "p", "l", "e", ".", "c",
       "o", "m">>,
     <<"W", "W", "W", ".", "E", "x", "a", "m", "p", "l", "e", ".", "c",
       "o", "m">>}

UrlPaths == {<<>>, <<"/">>, <<"/", "p", "a", "t", "h">>, <<"/", "p", "a", "t", "h", "/">>}

UrlQueries ==
    {<<>>,
     <<"?", "u", "t", "m", "_", "s", "o", "u", "r", "c", "e", "=", "a">>,
     <<"?", "k", "e", "e", "p", "=", "1">>,
     <<"?", "u", "t", "m", "_", "s", "o", "u", "r", "c", "e", "=", "a",
       "&", "k", "e", "e", "p", "=", "1", "/">>,
     <<"?", "k", "e", "e", "p", "=", "1", "&", "u", "t", "m", "_", "m",
       "e", "d", "i", "u", "m", "=", "b">>}

\* "example.com/path/", "not a url" and ""
MalformedUrls ==
    {<<"e", "x", "a", "m", "p", "l", "e", ".", "c", "o", "m", "/", "p",
       "a", "t", "h", "/">>,
     <<"n", "o", "t", " ", "a", " ", "u", "r", "l">>,
     <<>>}

NormalizeArgs ==
    {[op |-> "normalizeUrl",
      url |-> s \o SchemeSeparator \o h \o p \o q] :
        s \in UrlSchemes, h \in UrlHosts, p \in UrlPaths, q \in UrlQueries}
    \cup {[op |-> "normalizeUrl", url |-> u] : u \in MalformedUrls}

InitNormalize ==
    /\ args \in NormalizeArgs
    /\ ret = NoRet
    /\ now = 0
    /\ cache = <<>>
    /\ effects = NoEffects

CallNormalizeUrl ==
    /\ args.op = "normalizeUrl"
    /\ ret = NoRet
    /\ ret' = [op |-> args.op, value |-> normalizeUrl(args.url)]
    /\ UNCHANGED <<args, now, cache, effects>>

NextNormalize == CallNormalizeUrl

SpecNormalize == InitNormalize /\ [][NextNormalize]_vars

(***************************************************************************)
(* The claim about normalizeUrl                                            *)
(***************************************************************************)
\* "HTTPS://WWW.Example.com/path/?utm_source=a&keep=1/"
ExampleUrl ==
    <<"H", "T", "T", "P", "S", ":", "/", "/", "W", "W", "W", ".", "E", "x",
      "a", "m", "p", "l", "e", ".", "c", "o", "m", "/", "p", "a", "t", "h",
      "/", "?", "u", "t", "m", "_", "s", "o", "u", "r", "c", "e", "=", "a",
      "&", "k", "e", "e", "p", "=", "1", "/">>

\* "https://example.com/path?keep=1"
ExampleNormalized ==
    <<"h", "t", "t", "p", "s", ":", "/", "/", "e", "x", "a", "m", "p", "l",
      "e", ".", "c", "o", "m", "/", "p", "a", "t", "h", "?", "k", "e", "e",
      "p", "=", "1">>

\* The path without its one trailing separator, the root path as it is
WithoutTrailingSeparator(path) ==
    IF path # <<"/">> /\ Len(path) > 0 /\ path[Len(path)] = "/"
    THEN SubSeq(path, 1, Len(path) - 1)
    ELSE path

\* C11: for a URL that parses, what normalizeUrl returns is a URL of the
\* scheme https, of the host without a leading "www.", with the parameters
\* of the query whose key does not start with "utm_" and no other, and with
\* the path without its one trailing separator unless the path is the root,
\* with or without a query; the example of the specification gives
\* "https://example.com/path?keep=1"; a string that does not parse is
\* returned as it is.
C11_NormalizeUrlCanonical ==
    ret.op = "normalizeUrl" =>
        IF ~canParse(args.url) THEN ret.value = args.url
        ELSE /\ canParse(ret.value)
             /\ \E in \in {parseUrl(args.url)}, out \in {parseUrl(ret.value)} :
                   /\ out.protocol = <<"h", "t", "t", "p", "s", ":">>
                   /\ out.hostname
                        = IF startsWith(in.hostname, <<"w", "w", "w", ".">>)
                          THEN SubSeq(in.hostname, 5, Len(in.hostname))
                          ELSE in.hostname
                   /\ searchParams(out.search)
                        = SelectSeq(searchParams(in.search),
                                    LAMBDA p : ~startsWith(p.key,
                                                           <<"u", "t", "m",
                                                             "_">>))
                   /\ out.pathname = WithoutTrailingSeparator(in.pathname)
             /\ args.url = ExampleUrl => ret.value = ExampleNormalized

=============================================================================
